---- MODULE Spec2Model ----
(***************************************************************************)
(* A model of ms_identity_web.IdentityWebPython: the authorization-code    *)
(* redirect handshake bound to one server-side session.                    *)
(*                                                                         *)
(* One session's IdentityContextData is the variable ctx.  Every public    *)
(* operation of IdentityWebPython is one action; the private steps of the  *)
(* handshake are operators that take the context (and their arguments)     *)
(* and return the new context together with the exception they raise.      *)
(* The token client (msal) and the request are the environment: their      *)
(* answers are drawn from small sets.                                      *)
(*                                                                         *)
(* Python values: None is the string "None"; a dict is a function whose    *)
(* DOMAIN is its key set; an f-string is the sequence of its segments.     *)
(***************************************************************************)
EXTENDS Naturals, Sequences, FiniteSets, TLC

VARIABLES
    ctx,          \* the session's IdentityContextData
    aad_config,   \* the AADConfig given to __init__ (never changes)
    uuid_count,   \* how many uuid4() values have been drawn
    last,         \* the call that just ended: its inputs, what it did, how it
                  \* ended; Idle once the host has taken the outcome
    hist,         \* history: token exchanges since the last clearing
    accepted      \* history: the state values a handshake has verified

vars == <<ctx, aad_config, uuid_count, last, hist, accepted>>

----------------------------------------------------------------------------
(* Bounds *)

\* uuid4() values a session may draw (state and nonce generation together).
MaxUuid == 2

----------------------------------------------------------------------------
(* Python values *)

None == "None"

EmptyDict == [k \in {} |-> None]

\* dict.get(key, default)
Get(d, k, default) == IF k \in DOMAIN d THEN d[k] ELSE default

\* dict.pop(key, None): the dict without the key
Pop(d, k) == [x \in (DOMAIN d) \ {k} |-> d[x]]

\* dict.update(other)
Update(d, other) == other @@ d

\* one optional entry of a dict literal
Entry(k, v) == IF v = None THEN EmptyDict ELSE (k :> v)

\* truthiness of an optional string: None and "" are falsy
Truthy(v) == v # None /\ v # ""

\* a or b
Or(a, b) == IF Truthy(a) THEN a ELSE b

\* str.startswith on segment sequences
StartsWith(s, prefix) ==
    /\ Len(s) >= Len(prefix)
    /\ SubSeq(s, 1, Len(prefix)) = prefix

----------------------------------------------------------------------------
(* Exceptions.  NoExc: the step returned normally. *)

NoExc == "NoExc"
AuthSecurityError == "AuthSecurityError"
OtherAuthError == "OtherAuthError"
B2CPasswordError == "B2CPasswordError"
TokenExchangeError == "TokenExchangeError"
NotImplementedErr == "NotImplementedError"
NotAuthenticatedError == "NotAuthenticatedError"
\* raised by the token client (msal): network, authority discovery, ...
ClientError == "ClientError"
IndexError == "IndexError"
TypeError == "TypeError"

----------------------------------------------------------------------------
(* Constants of .constants and of the configuration *)

B2C == "B2C"
AAD == "AAD"
AuthorityTypes == {B2C, AAD}

CODE == "code"
ID_TOKEN == "id_token"

SELECT_ACCOUNT == "select_account"
LOGIN == "login"
PROMPT_KEY == "prompt"

ERROR_CODE_PARAM_KEY == "error"
B2C_FORGOT_PASSWORD_ERROR_CODE == <<"AADB2C90118">>

SIGN_OUT_ENDPOINT == "/oauth2/v2.0/logout"
SIGN_OUT_REDIRECT_PARAM_KEY == "post_logout_redirect_uri"

\* aad_config.client.authority, aad_config.b2c.*, aad_config.auth_request.*
Authority == "https://login.example/tenant/"
Susi == "b2c_1_susi"
Password == "b2c_1_reset"
Policies == {Susi, Password}
Scopes == "User.Read"
ConfigRedirectUri == "https://app/auth/redirect"

----------------------------------------------------------------------------
(* The values the environment supplies *)

UuidNames == <<"uuid-1", "uuid-2", "uuid-3", "uuid-4", "uuid-5", "uuid-6">>

\* str(uuid4()): a value never drawn before
uuid4 == UuidNames[uuid_count + 1]

Caches == {"cache-A"}
\* str() of a SerializableTokenCache object, as an f-string formats it
Repr(x) == IF x \in Caches THEN "<SerializableTokenCache cache-A>" ELSE x

Absent == "absent"

\* request parameters: state, error, code and nonce, each present or not.  The
\* nonce is missing or the first value ever issued (the stored nonce or not).  The state
\* is missing, the one the session holds, or the first one ever issued
\* (forged before it is issued, stale once it is used or replaced).
StateParams(c) == {Absent, "uuid-1"} \cup ({c.state} \ {None})
ErrorParams == {<<Absent>>, B2C_FORGOT_PASSWORD_ERROR_CODE,
                B2C_FORGOT_PASSWORD_ERROR_CODE \o <<": forgot">>,
                <<"access_denied">>}
CodeParams == {Absent, "abc"}
RedirectNonceParams == {Absent, "uuid-1"}

ReqParamsOf(s, e, c, n) ==
    (IF s = Absent THEN EmptyDict ELSE "state" :> s)
    @@ (IF e = <<Absent>> THEN EmptyDict ELSE ERROR_CODE_PARAM_KEY :> e)
    @@ (IF c = Absent THEN EmptyDict ELSE CODE :> c)
    @@ (IF n = Absent THEN EmptyDict ELSE "nonce" :> n)

\* the request handed to _verify_nonce: without a nonce, with the first one
\* ever issued, or with the one the session holds
NonceParams(c) == {Absent, "uuid-1"} \cup ({c.nonce} \ {None})
NonceRequests(c) ==
    {IF n = Absent THEN EmptyDict ELSE "nonce" :> n : n \in NonceParams(c)}

ReqParams(c) ==
    {ReqParamsOf(s, e, code, n) :
        s \in StateParams(c), e \in ErrorParams, code \in CodeParams,
        n \in RedirectNonceParams}

\* id_token_claims of a token result
ClaimsDicts == {"name" :> "alice", "sub" :> "subject-1"}

\* what the token client answers: a result dict, None, or an exception
ResultOf(err, tok, claims) ==
    Entry("error", err) @@ Entry("access_token", tok)
    @@ (IF claims = EmptyDict THEN EmptyDict ELSE "id_token_claims" :> claims)

Results ==
    {ResultOf(None, "tok", "name" :> "alice"),
     ResultOf(None, "tok", EmptyDict),
     ResultOf(None, None, "sub" :> "subject-1"),
     ResultOf(None, None, EmptyDict),
     ResultOf("invalid_grant", None, EmptyDict),
     ResultOf("invalid_grant", "tok", "name" :> "alice")}

ClientAnswers ==
    {[kind |-> "result", result |-> r] : r \in Results}
    \cup {[kind |-> "raise", result |-> EmptyDict]}

\* whether building a client and an authorization URL succeeds
UrlAnswers == {"ok", "raise"}

NextActions == {"index", "profile"}
RedirectUris == {None, "https://app/other"}
ResponseTypes == {None, CODE, ID_TOKEN}

----------------------------------------------------------------------------
(* IdentityContextData *)

NoClaims == <<>>

DefaultContext ==
    [authenticated |-> FALSE,
     state |-> None,
     nonce |-> None,
     last_used_b2c_policy |-> None,
     username |-> "anonymous",
     id_token_claims |-> NoClaims,
     access_token |-> None,
     token_cache |-> None,
     has_changed |-> FALSE]

\* adapter.clear_session(): the session's context data is gone
clear_session(c) == DefaultContext

\* what a step hands back: the context, the exception it raised, its args
Ok(c) == [ctx |-> c, exc |-> NoExc, args |-> <<>>]
Raise(c, e, a) == [ctx |-> c, exc |-> e, args |-> a]

----------------------------------------------------------------------------
(* The token client factory *)

NoClient == [built |-> FALSE, authority |-> <<>>, token_cache |-> None]

\* _client_factory(token_cache, b2c_policy): the configuration the
\* ConfidentialClientApplication is built with
client_factory(token_cache, b2c_policy) ==
    [built |-> TRUE,
     authority |-> <<Authority>>
                   \o (IF Truthy(b2c_policy) THEN <<Repr(b2c_policy)>> ELSE <<>>),
     token_cache |-> IF Truthy(token_cache) THEN token_cache ELSE None]

----------------------------------------------------------------------------
(* Building the authorization request *)

\* aad_config.auth_request.__dict__
AuthRequestConfig ==
    ("scopes" :> Scopes)
    @@ ("redirect_uri" :> ConfigRedirectUri)
    @@ ("response_type" :> aad_config.response_type)

\* prepare_b2c_auth storing the policy argument as it came in
prepare_b2c_auth_persists_argument(c, auth_req_config_dict, b2c_policy) ==
    LET policy == IF ~Truthy(b2c_policy) THEN Susi ELSE b2c_policy
        config ==
            IF /\ Truthy(b2c_policy)
               /\ b2c_policy # Susi
               /\ Get(auth_req_config_dict, PROMPT_KEY, None) = SELECT_ACCOUNT
            THEN Pop(auth_req_config_dict, PROMPT_KEY)
            ELSE auth_req_config_dict
    IN  [ctx |-> [c EXCEPT !.last_used_b2c_policy = b2c_policy],
         config |-> config,
         b2c_policy |-> policy]

\* prepare_b2c_auth dropping select_account whatever the explicit policy is
prepare_b2c_auth_strips_for_any_policy(c, auth_req_config_dict, b2c_policy) ==
    LET policy == IF ~Truthy(b2c_policy) THEN Susi ELSE b2c_policy
        config ==
            IF /\ Truthy(b2c_policy)
               /\ Get(auth_req_config_dict, PROMPT_KEY, None) = SELECT_ACCOUNT
            THEN Pop(auth_req_config_dict, PROMPT_KEY)
            ELSE auth_req_config_dict
    IN  [ctx |-> [c EXCEPT !.last_used_b2c_policy = policy],
         config |-> config,
         b2c_policy |-> policy]

prepare_b2c_auth(c, auth_req_config_dict, b2c_policy) ==
    LET policy == IF ~Truthy(b2c_policy) THEN Susi ELSE b2c_policy
        config ==
            IF /\ Truthy(b2c_policy)
               /\ b2c_policy # Susi
               /\ Get(auth_req_config_dict, PROMPT_KEY, None) = SELECT_ACCOUNT
            THEN Pop(auth_req_config_dict, PROMPT_KEY)
            ELSE auth_req_config_dict
    IN  [ctx |-> [c EXCEPT !.last_used_b2c_policy = policy],
         config |-> config,
         b2c_policy |-> policy]

NoUrl == [authority |-> <<>>, params |-> EmptyDict]

\* get_auth_url(redirect_uri, b2c_policy, **msal_auth_url_kwargs); url_answer
\* says whether the client could be built and asked for the URL
get_auth_url(c, redirect_uri, b2c_policy, msal_auth_url_kwargs, url_answer) ==
    LET updated == Update(AuthRequestConfig, msal_auth_url_kwargs)
        auth_req_config ==
            IF Truthy(redirect_uri)
            THEN ("redirect_uri" :> redirect_uri) @@ updated
            ELSE updated
        prepared == prepare_b2c_auth(c, auth_req_config, b2c_policy)
        is_b2c == aad_config.authority_type = B2C
        after == IF is_b2c THEN prepared.ctx ELSE c
        client == IF is_b2c
                  THEN client_factory(None, prepared.b2c_policy)
                  ELSE client_factory(None, None)
        params == IF is_b2c THEN prepared.config ELSE auth_req_config
    IN  IF url_answer = "raise"
        THEN [ctx |-> after, exc |-> ClientError, url |-> NoUrl]
        ELSE [ctx |-> after, exc |-> NoExc,
              url |-> [authority |-> client.authority, params |-> params]]

----------------------------------------------------------------------------
(* State and nonce *)

\* variant: a state that is still stored is not replaced
generate_state_keeps_stored_state(c) ==
    IF c.state = None THEN [c EXCEPT !.state = uuid4] ELSE c

generate_state(c) == [c EXCEPT !.state = uuid4]

\* variant: the None check is left out, so a request without state matches a
\* session without state
verify_state_without_none_check(c, req_params) ==
    LET state == Get(req_params, "state", None)
        session_state == c.state
    IN  IF session_state # state
        THEN Raise(c, AuthSecurityError, <<"state">>)
        ELSE Ok([c EXCEPT !.state = None])

\* variant: the verified state is not cleared
verify_state_keeps_state(c, req_params) ==
    LET state == Get(req_params, "state", None)
        session_state == c.state
    IN  IF state = None \/ session_state # state
        THEN Raise(c, AuthSecurityError, <<"state">>)
        ELSE Ok(c)

verify_state(c, req_params) ==
    LET state == Get(req_params, "state", None)
        session_state == c.state
    IN  IF state = None \/ session_state # state
        THEN Raise(c, AuthSecurityError, <<"state">>)
        ELSE Ok([c EXCEPT !.state = None])

generate_nonce(c) == [c EXCEPT !.nonce = uuid4]

\* variant: a verified nonce stays usable
verify_nonce_keeps_nonce(c, req_params) ==
    LET nonce == Get(req_params, "nonce", None)
        session_nonce == c.nonce
    IN  IF nonce = None \/ session_nonce # nonce
        THEN Raise(c, AuthSecurityError, <<"nonce">>)
        ELSE Ok(c)

verify_nonce(c, req_params) ==
    LET nonce == Get(req_params, "nonce", None)
        session_nonce == c.nonce
    IN  IF nonce = None \/ session_nonce # nonce
        THEN Raise(c, AuthSecurityError, <<"nonce">>)
        ELSE Ok([c EXCEPT !.nonce = None])

----------------------------------------------------------------------------
(* The guard of the routes *)

\* variant: the wrapped route runs whoever asks
login_required_without_check(c) ==
    [ctx |-> c, exc |-> NoExc, ran |-> TRUE]

\* assert_login, the wrapper login_required(f) returns: ran says whether f,
\* the route of the host application, was called
login_required(c) ==
    IF ~c.authenticated
    THEN [ctx |-> c, exc |-> NotAuthenticatedError, ran |-> FALSE]
    ELSE [ctx |-> c, exc |-> NoExc, ran |-> TRUE]

----------------------------------------------------------------------------
(* The steps of the redirect handshake *)

\* the exception _parse_redirect_errors raises
parse_redirect_errors(req_params) ==
    IF ERROR_CODE_PARAM_KEY \in DOMAIN req_params
    THEN LET error_code == req_params[ERROR_CODE_PARAM_KEY]
         IN  IF StartsWith(error_code, B2C_FORGOT_PASSWORD_ERROR_CODE)
             THEN B2CPasswordError
             ELSE OtherAuthError
    ELSE NoExc

extract_auth_response_payload(req_params, expected_response_type) ==
    IF expected_response_type = CODE
    THEN [exc |-> NoExc, payload |-> Get(req_params, CODE, None)]
    ELSE [exc |-> NotImplementedErr, payload |-> None]

NoRedeem ==
    [called |-> FALSE, code |-> None, scopes |-> None,
     redirect_uri |-> None, nonce |-> None]

\* _x_change_auth_code_for_token(code, token_cache, redirect_uri); answer is
\* what the token client does with the redemption
x_change_auth_code_for_token(c, code, token_cache, redirect_uri, answer) ==
    LET id_context == c
        b2c_policy == IF aad_config.authority_type = B2C
                      THEN id_context.last_used_b2c_policy
                      ELSE None
        \* positional call: _client_factory(b2c_policy, token_cache)
        client == client_factory(b2c_policy, token_cache)
        uri == Or(redirect_uri, Or(ConfigRedirectUri, None))
        redeem == [called |-> TRUE, code |-> code, scopes |-> Scopes,
                   redirect_uri |-> uri, nonce |-> id_context.nonce]
    IN  [exc |-> IF answer.kind = "raise" THEN ClientError ELSE NoExc,
         result |-> answer.result,
         client |-> client,
         redeem |-> redeem]

\* variant: the dirty flag is not set
process_result_without_dirty_flag(c, result, token_cache) ==
    IF "error" \notin DOMAIN result
    THEN LET c1 == [c EXCEPT !.authenticated = TRUE]
             c2 == IF "id_token_claims" \in DOMAIN result
                   THEN [c1 EXCEPT
                           !.id_token_claims = result["id_token_claims"],
                           !.username =
                               Get(result["id_token_claims"], "name", "anonymous")]
                   ELSE c1
             c3 == IF "access_token" \in DOMAIN result
                   THEN [c2 EXCEPT !.access_token = result["access_token"]]
                   ELSE c2
         IN  Ok([c3 EXCEPT !.token_cache = token_cache])
    ELSE Raise(c, TokenExchangeError,
               <<result["error"], Get(result, "error_description", None)>>)

\* variant: an error result marks the session unauthenticated
process_result_unauthenticates_on_error(c, result, token_cache) ==
    IF "error" \notin DOMAIN result
    THEN LET c1 == [c EXCEPT !.authenticated = TRUE]
             c2 == IF "id_token_claims" \in DOMAIN result
                   THEN [c1 EXCEPT
                           !.id_token_claims = result["id_token_claims"],
                           !.username =
                               Get(result["id_token_claims"], "name", "anonymous")]
                   ELSE c1
             c3 == IF "access_token" \in DOMAIN result
                   THEN [c2 EXCEPT !.access_token = result["access_token"]]
                   ELSE c2
         IN  Ok([c3 EXCEPT !.has_changed = TRUE, !.token_cache = token_cache])
    ELSE Raise([c EXCEPT !.authenticated = FALSE, !.has_changed = TRUE],
               TokenExchangeError,
               <<result["error"], Get(result, "error_description", None)>>)

process_result(c, result, token_cache) ==
    IF "error" \notin DOMAIN result
    THEN LET c1 == [c EXCEPT !.authenticated = TRUE]
             c2 == IF "id_token_claims" \in DOMAIN result
                   THEN [c1 EXCEPT
                           !.id_token_claims = result["id_token_claims"],
                           !.username =
                               Get(result["id_token_claims"], "name", "anonymous")]
                   ELSE c1
             c3 == IF "access_token" \in DOMAIN result
                   THEN [c2 EXCEPT !.access_token = result["access_token"]]
                   ELSE c2
         IN  Ok([c3 EXCEPT !.has_changed = TRUE, !.token_cache = token_cache])
    ELSE Raise(c, TokenExchangeError,
               <<result["error"], Get(result, "error_description", None)>>)

\* variant: the authenticated flag survives the clearing
remove_user_keeps_authenticated(c) ==
    [clear_session(c) EXCEPT !.authenticated = c.authenticated]

\* variant: the call also flips the dirty flag of the context it found
remove_user_flips_dirty_flag(c) ==
    [clear_session(c) EXCEPT !.has_changed = ~c.has_changed]

remove_user(c) == clear_session(c)

\* sign_out with the B2C branch building the same URL as the other branch
sign_out_without_policy_segment(post_sign_out_url) ==
    LET sign_out_url == <<Authority, SIGN_OUT_ENDPOINT>>
    IN  IF Truthy(post_sign_out_url)
        THEN sign_out_url
             \o <<"?", SIGN_OUT_REDIRECT_PARAM_KEY, "=", post_sign_out_url>>
        ELSE sign_out_url

\* sign_out(post_sign_out_url): the URL handed to redirect_to_absolute_url
sign_out(post_sign_out_url) ==
    LET sign_out_url ==
            IF aad_config.authority_type = B2C
            THEN <<Authority, Susi, SIGN_OUT_ENDPOINT>>
            ELSE <<Authority, SIGN_OUT_ENDPOINT>>
    IN  IF Truthy(post_sign_out_url)
        THEN sign_out_url
             \o <<"?", SIGN_OUT_REDIRECT_PARAM_KEY, "=", post_sign_out_url>>
        ELSE sign_out_url

----------------------------------------------------------------------------
(* process_auth_redirect *)

\* what a call returns: a value, a redirect, or nothing (it raised)
ReturnValue(v) == [kind |-> "value", value |-> v, url |-> NoUrl]
ReturnRedirect(u) == [kind |-> "redirect", value |-> None, url |-> u]
ReturnNothing == [kind |-> "none", value |-> None, url |-> NoUrl]

Attempt(c, exc, trace, cache, client, redeem, result) ==
    [ctx |-> c, exc |-> exc, trace |-> trace, cache |-> cache,
     client |-> client, redeem |-> redeem, result |-> result]

\* variant: the provider's error is parsed before the state is verified
try_block_parses_errors_first(c, req_params, redirect_uri, response_type, answer) ==
    LET verified == verify_state(c, req_params)
        parsed == parse_redirect_errors(req_params)
        resp_type == Or(response_type, Or(aad_config.response_type, CODE))
        extracted == extract_auth_response_payload(req_params, resp_type)
        cache == verified.ctx.token_cache
        exchange == x_change_auth_code_for_token(
                        verified.ctx, extracted.payload, cache, redirect_uri, answer)
        processed == process_result(verified.ctx, exchange.result, cache)
        t1 == <<"parse_redirect_errors">>
        t2 == t1 \o <<"verify_state">>
        t3 == t2 \o <<"extract_auth_response_payload">>
        t4 == t3 \o <<"x_change_auth_code_for_token">>
        t5 == t4 \o <<"process_result">>
    IN  IF parsed # NoExc
        THEN Attempt(c, parsed, t1, None, NoClient, NoRedeem, EmptyDict)
        ELSE IF verified.exc # NoExc
        THEN Attempt(verified.ctx, verified.exc, t2, None, NoClient, NoRedeem, EmptyDict)
        ELSE IF extracted.exc # NoExc
        THEN Attempt(verified.ctx, extracted.exc, t3, None, NoClient, NoRedeem, EmptyDict)
        ELSE IF exchange.exc # NoExc
        THEN Attempt(verified.ctx, exchange.exc, t4, cache, exchange.client,
                     exchange.redeem, EmptyDict)
        ELSE Attempt(processed.ctx, processed.exc, t5, cache, exchange.client,
                     exchange.redeem, exchange.result)

\* the try block: the steps in order, up to the first that raises
\* variant: the configured response type is not looked at
try_block_ignores_configured_response_type(c, req_params, redirect_uri, response_type, answer) ==
    LET verified == verify_state(c, req_params)
        parsed == parse_redirect_errors(req_params)
        resp_type == Or(response_type, CODE)
        extracted == extract_auth_response_payload(req_params, resp_type)
        cache == verified.ctx.token_cache
        exchange == x_change_auth_code_for_token(
                        verified.ctx, extracted.payload, cache, redirect_uri, answer)
        processed == process_result(verified.ctx, exchange.result, cache)
        t1 == <<"verify_state">>
        t2 == t1 \o <<"parse_redirect_errors">>
        t3 == t2 \o <<"extract_auth_response_payload">>
        t4 == t3 \o <<"x_change_auth_code_for_token">>
        t5 == t4 \o <<"process_result">>
    IN  IF verified.exc # NoExc
        THEN Attempt(verified.ctx, verified.exc, t1, None, NoClient, NoRedeem, EmptyDict)
        ELSE IF parsed # NoExc
        THEN Attempt(verified.ctx, parsed, t2, None, NoClient, NoRedeem, EmptyDict)
        ELSE IF extracted.exc # NoExc
        THEN Attempt(verified.ctx, extracted.exc, t3, None, NoClient, NoRedeem, EmptyDict)
        ELSE IF resp_type # CODE
        THEN Attempt(verified.ctx, NotImplementedErr, t3, cache, NoClient, NoRedeem,
                     EmptyDict)
        ELSE IF exchange.exc # NoExc
        THEN Attempt(verified.ctx, exchange.exc, t4, cache, exchange.client,
                     exchange.redeem, EmptyDict)
        ELSE Attempt(processed.ctx, processed.exc, t5, cache, exchange.client,
                     exchange.redeem, exchange.result)

\* variant: the nonce is verified as the last step of the try block
try_block_verifies_nonce(c, req_params, redirect_uri, response_type, answer) ==
    LET verified == verify_state(c, req_params)
        parsed == parse_redirect_errors(req_params)
        resp_type == Or(response_type, Or(aad_config.response_type, CODE))
        extracted == extract_auth_response_payload(req_params, resp_type)
        cache == verified.ctx.token_cache
        exchange == x_change_auth_code_for_token(
                        verified.ctx, extracted.payload, cache, redirect_uri, answer)
        result_processed == process_result(verified.ctx, exchange.result, cache)
        nonce_verified == verify_nonce(result_processed.ctx, req_params)
        processed == IF result_processed.exc # NoExc
                     THEN result_processed ELSE nonce_verified
        t1 == <<"verify_state">>
        t2 == t1 \o <<"parse_redirect_errors">>
        t3 == t2 \o <<"extract_auth_response_payload">>
        t4 == t3 \o <<"x_change_auth_code_for_token">>
        t5 == t4 \o <<"process_result">>
    IN  IF verified.exc # NoExc
        THEN Attempt(verified.ctx, verified.exc, t1, None, NoClient, NoRedeem, EmptyDict)
        ELSE IF parsed # NoExc
        THEN Attempt(verified.ctx, parsed, t2, None, NoClient, NoRedeem, EmptyDict)
        ELSE IF extracted.exc # NoExc
        THEN Attempt(verified.ctx, extracted.exc, t3, None, NoClient, NoRedeem, EmptyDict)
        ELSE IF resp_type # CODE
        THEN Attempt(verified.ctx, NotImplementedErr, t3, cache, NoClient, NoRedeem,
                     EmptyDict)
        ELSE IF exchange.exc # NoExc
        THEN Attempt(verified.ctx, exchange.exc, t4, cache, exchange.client,
                     exchange.redeem, EmptyDict)
        ELSE Attempt(processed.ctx, processed.exc, t5, cache, exchange.client,
                     exchange.redeem, exchange.result)

try_block(c, req_params, redirect_uri, response_type, answer) ==
    LET verified == verify_state(c, req_params)
        parsed == parse_redirect_errors(req_params)
        resp_type == Or(response_type, Or(aad_config.response_type, CODE))
        extracted == extract_auth_response_payload(req_params, resp_type)
        cache == verified.ctx.token_cache
        exchange == x_change_auth_code_for_token(
                        verified.ctx, extracted.payload, cache, redirect_uri, answer)
        processed == process_result(verified.ctx, exchange.result, cache)
        t1 == <<"verify_state">>
        t2 == t1 \o <<"parse_redirect_errors">>
        t3 == t2 \o <<"extract_auth_response_payload">>
        t4 == t3 \o <<"x_change_auth_code_for_token">>
        t5 == t4 \o <<"process_result">>
    IN  IF verified.exc # NoExc
        THEN Attempt(verified.ctx, verified.exc, t1, None, NoClient, NoRedeem, EmptyDict)
        ELSE IF parsed # NoExc
        THEN Attempt(verified.ctx, parsed, t2, None, NoClient, NoRedeem, EmptyDict)
        ELSE IF extracted.exc # NoExc
        THEN Attempt(verified.ctx, extracted.exc, t3, None, NoClient, NoRedeem, EmptyDict)
        ELSE IF resp_type # CODE
        THEN Attempt(verified.ctx, NotImplementedErr, t3, cache, NoClient, NoRedeem,
                     EmptyDict)
        ELSE IF exchange.exc # NoExc
        THEN Attempt(verified.ctx, exchange.exc, t4, cache, exchange.client,
                     exchange.redeem, EmptyDict)
        ELSE Attempt(processed.ctx, processed.exc, t5, cache, exchange.client,
                     exchange.redeem, exchange.result)

Outcome(attempt, c, caught, raised, returned) ==
    [ctx |-> c, caught |-> caught, raised |-> raised, returned |-> returned,
     trace |-> attempt.trace, cache |-> attempt.cache, client |-> attempt.client,
     redeem |-> attempt.redeem, result |-> attempt.result]

\* variant: no catch-all clause, so only the four named errors are handled
process_auth_redirect_without_catch_all(c, req_params, next_action, redirect_uri, response_type, answer, url_answer) ==
    LET attempt == try_block(c, req_params, redirect_uri, response_type, answer)
        removed == remove_user(attempt.ctx)
        pw_reset == get_auth_url(removed, None, None, "policy" :> Password, url_answer)
    IN  IF attempt.exc = NoExc
        THEN Outcome(attempt, attempt.ctx, NoExc, NoExc, ReturnValue(next_action))
        ELSE IF attempt.exc = B2CPasswordError
        THEN IF pw_reset.exc # NoExc
             THEN Outcome(attempt, pw_reset.ctx, attempt.exc, pw_reset.exc, ReturnNothing)
             ELSE Outcome(attempt, pw_reset.ctx, attempt.exc, NoExc,
                          ReturnRedirect(pw_reset.url))
        ELSE IF attempt.exc \in {AuthSecurityError, OtherAuthError, TokenExchangeError}
        THEN Outcome(attempt, removed, attempt.exc, NoExc, ReturnValue(next_action))
        ELSE Outcome(attempt, attempt.ctx, NoExc, attempt.exc, ReturnNothing)

\* the except clauses and the final return
process_auth_redirect(c, req_params, next_action, redirect_uri, response_type, answer, url_answer) ==
    LET attempt == try_block(c, req_params, redirect_uri, response_type, answer)
        removed == remove_user(attempt.ctx)
        pw_reset == get_auth_url(removed, None, None, "policy" :> Password, url_answer)
    IN  IF attempt.exc = NoExc
        THEN Outcome(attempt, attempt.ctx, NoExc, NoExc, ReturnValue(next_action))
        ELSE IF attempt.exc = B2CPasswordError
        THEN IF pw_reset.exc # NoExc
             THEN Outcome(attempt, pw_reset.ctx, attempt.exc, pw_reset.exc, ReturnNothing)
             ELSE Outcome(attempt, pw_reset.ctx, attempt.exc, NoExc,
                          ReturnRedirect(pw_reset.url))
        ELSE Outcome(attempt, removed, attempt.exc, NoExc, ReturnValue(next_action))

----------------------------------------------------------------------------
(* acquire_token_silently *)

NoAnswer == [kind |-> "result", result |-> EmptyDict]

SilentAnswers == ClientAnswers \cup {[kind |-> "none", result |-> EmptyDict]}
AccountLists == {<<>>, <<"account-1">>}
AccountArgs == {None, "account-arg"}

\* accounts is what client.get_accounts() returns, answer is what
\* client.acquire_token_silent_with_error does
acquire_token_silently(c, account, token_cache, accounts, answer) ==
    LET id_data == c
        cache == Or(token_cache, id_data.token_cache)
        client == client_factory(cache, None)
        silent_opts == [scopes |-> Or(None, Scopes),
                        account |-> IF Truthy(account) THEN account ELSE accounts[1]]
        ended(r, opts, called) ==
            [ctx |-> r.ctx, raised |-> r.exc, args |-> r.args, client |-> client,
             silent_opts |-> opts, called |-> called]
        no_opts == [scopes |-> Or(None, Scopes), account |-> None]
    IN  IF ~Truthy(account) /\ accounts = <<>>
        THEN ended(Raise(c, IndexError, <<>>), no_opts, FALSE)
        ELSE IF answer.kind = "raise"
        THEN ended(Raise(c, ClientError, <<>>), silent_opts, TRUE)
        ELSE IF answer.kind = "none"
        THEN ended(Raise(c, TypeError, <<>>), silent_opts, TRUE)
        ELSE ended(process_result(c, answer.result, cache), silent_opts, TRUE)

----------------------------------------------------------------------------
(* The session: one action per operation *)

PromptKwargs == {EmptyDict, PROMPT_KEY :> SELECT_ACCOUNT, PROMPT_KEY :> LOGIN}
PolicyArgs == {None} \cup Policies
PostSignOutUrls == {None, "https://app/bye"}

\* a token exchange that succeeded: the result carries no error
Succeeded(result) == "error" \notin DOMAIN result

NoHistory == [since_sign_out |-> FALSE, since_clear |-> FALSE]

\* no call is in progress: the host may make the next one
Idle == [op |-> "idle"]

Init ==
    /\ ctx = DefaultContext
    /\ aad_config \in [authority_type : AuthorityTypes, response_type : {None, ID_TOKEN}]
    /\ uuid_count = 0
    /\ last = Idle
    /\ hist = NoHistory
    /\ accepted = {}

\* In the actions below a call is bound as \E run \in {call(...)}: the call is
\* made once and run is its outcome.

GenerateState ==
    /\ last = Idle
    /\ uuid_count < MaxUuid
    /\ ctx' = generate_state(ctx)
    /\ uuid_count' = uuid_count + 1
    /\ last' = [op |-> "generate_state", returned |-> uuid4]
    /\ UNCHANGED <<aad_config, hist, accepted>>

GenerateNonce ==
    /\ last = Idle
    /\ uuid_count < MaxUuid
    /\ ctx' = generate_nonce(ctx)
    /\ uuid_count' = uuid_count + 1
    /\ last' = [op |-> "generate_nonce", returned |-> uuid4]
    /\ UNCHANGED <<aad_config, hist, accepted>>

GetAuthUrl ==
    /\ last = Idle
    /\ \E redirect_uri \in RedirectUris, b2c_policy \in PolicyArgs,
       kwargs \in PromptKwargs, url_answer \in UrlAnswers :
        \E got \in {get_auth_url(ctx, redirect_uri, b2c_policy, kwargs, url_answer)} :
            /\ ctx' = got.ctx
            /\ last' = [op |-> "get_auth_url", b2c_policy |-> b2c_policy,
                        kwargs |-> kwargs, raised |-> got.exc, url |-> got.url]
            /\ UNCHANGED <<aad_config, uuid_count, hist, accepted>>

ProcessAuthRedirect ==
    /\ last = Idle
    /\ \E req_params \in ReqParams(ctx), next_action \in NextActions,
       response_type \in ResponseTypes :
        \E probe \in {try_block(ctx, req_params, None, response_type, NoAnswer)} :
        LET asked == probe.redeem.called
        IN  \E redirect_uri \in (IF asked THEN RedirectUris ELSE {None}),
               answer \in (IF asked THEN ClientAnswers ELSE {NoAnswer}),
               url_answer \in (IF probe.exc = B2CPasswordError
                               THEN UrlAnswers ELSE {"ok"}) :
                \E run \in {process_auth_redirect(ctx, req_params, next_action,
                               redirect_uri, response_type, answer, url_answer)} :
                    /\ ctx' = run.ctx
                    /\ last' = [op |-> "process_auth_redirect",
                                req_params |-> req_params,
                                next_action |-> next_action,
                                redirect_uri |-> redirect_uri,
                                response_type |-> response_type,
                                answer |-> answer,
                                url_answer |-> url_answer,
                                caught |-> run.caught,
                                raised |-> run.raised,
                                returned |-> run.returned,
                                trace |-> run.trace,
                                cache |-> run.cache,
                                client |-> run.client,
                                redeem |-> run.redeem,
                                result |-> run.result]
                    /\ hist' = IF run.caught # NoExc
                               THEN NoHistory
                               ELSE [since_sign_out |-> TRUE, since_clear |-> TRUE]
                    /\ accepted' = IF Len(run.trace) > 1
                                   THEN accepted \cup {Get(req_params, "state", None)}
                                   ELSE accepted
                    /\ UNCHANGED <<aad_config, uuid_count>>

AcquireTokenSilently ==
    /\ last = Idle
    /\ \E account \in AccountArgs, token_cache \in {None} \cup Caches :
        \E accounts \in (IF Truthy(account) THEN {<<>>} ELSE AccountLists) :
        LET asked == Truthy(account) \/ accounts # <<>>
        IN  \E answer \in (IF asked THEN SilentAnswers ELSE {NoAnswer}) :
            \E run \in {acquire_token_silently(ctx, account, token_cache,
                                                accounts, answer)} :
                LET success == /\ run.called
                               /\ answer.kind = "result"
                               /\ Succeeded(answer.result)
                IN  /\ ctx' = run.ctx
                    /\ last' = [op |-> "acquire_token_silently",
                                token_cache |-> token_cache,
                                answer |-> IF asked THEN answer.kind ELSE "unasked",
                                result |-> answer.result,
                                raised |-> run.raised,
                                args |-> run.args,
                                client |-> run.client,
                                silent_opts |-> run.silent_opts]
                    /\ hist' = IF success
                               THEN [since_sign_out |-> TRUE, since_clear |-> TRUE]
                               ELSE hist
                    /\ UNCHANGED <<aad_config, uuid_count, accepted>>

SignOut ==
    /\ last = Idle
    /\ \E post_sign_out_url \in PostSignOutUrls :
        /\ last' = [op |-> "sign_out",
                    post_sign_out_url |-> post_sign_out_url,
                    returned |-> ReturnRedirect(
                        [authority |-> sign_out(post_sign_out_url),
                         params |-> EmptyDict])]
        /\ hist' = [hist EXCEPT !.since_sign_out = FALSE]
        /\ UNCHANGED <<ctx, aad_config, uuid_count, accepted>>

RemoveUser ==
    /\ last = Idle
    /\ ctx' = remove_user(ctx)
    /\ last' = [op |-> "remove_user"]
    /\ hist' = NoHistory
    /\ UNCHANGED <<aad_config, uuid_count, accepted>>

VerifyNonce ==
    /\ last = Idle
    /\ \E req_params \in NonceRequests(ctx) :
        LET verified == verify_nonce(ctx, req_params)
        IN  /\ ctx' = verified.ctx
            /\ last' = [op |-> "verify_nonce", req_params |-> req_params,
                        raised |-> verified.exc]
    /\ UNCHANGED <<aad_config, uuid_count, hist, accepted>>

LoginRequired ==
    /\ last = Idle
    /\ LET guarded == login_required(ctx)
       IN  /\ ctx' = guarded.ctx
           /\ last' = [op |-> "login_required", raised |-> guarded.exc,
                       ran |-> guarded.ran]
    /\ UNCHANGED <<aad_config, uuid_count, hist, accepted>>

\* the call's outcome goes back to the host framework
ReturnToHost ==
    /\ last # Idle
    /\ last' = Idle
    /\ UNCHANGED <<ctx, aad_config, uuid_count, hist, accepted>>

Next ==
    \/ GenerateState
    \/ GenerateNonce
    \/ GetAuthUrl
    \/ ProcessAuthRedirect
    \/ AcquireTokenSilently
    \/ SignOut
    \/ RemoveUser
    \/ VerifyNonce
    \/ LoginRequired
    \/ ReturnToHost

Spec == Init /\ [][Next]_vars

----------------------------------------------------------------------------
(* Properties *)

Redirect == "process_auth_redirect"
Silent == "acquire_token_silently"

\* this step is a call of op: the host was idle and the call has ended
Called(op) == last = Idle /\ last'.op = op

\* the request's state is absent or differs from the stored one
StateMismatch(c, req_params) ==
    \/ "state" \notin DOMAIN req_params
    \/ req_params["state"] # c.state

\* the steps of a handshake that got through all five
AllSteps ==
    <<"verify_state", "parse_redirect_errors", "extract_auth_response_payload",
      "x_change_auth_code_for_token", "process_result">>

\* the handshake redeemed the code and the result carries no error
HandshakeSucceeded(call) ==
    /\ call.op = Redirect
    /\ call.trace = AllSteps
    /\ Succeeded(call.result)

(* C1: a redirect whose state parameter is absent or differs from the stored
   state (also when no state is stored) fails with AuthSecurityError, leaves
   the context data cleared and returns next_action unchanged. *)
C1_StateMismatchClearsSession ==
    [][(Called(Redirect) /\ StateMismatch(ctx, last'.req_params))
        => /\ last'.caught = AuthSecurityError
           /\ last'.raised = NoExc
           /\ ctx' = DefaultContext
           /\ last'.returned = ReturnValue(last'.next_action)]_vars

C1_Witness ==
    /\ last.op = Redirect
    /\ "state" \in DOMAIN last.req_params
    /\ last.caught = AuthSecurityError
    /\ ctx = DefaultContext
    /\ last.returned = ReturnValue("profile")
    /\ uuid_count > 0

(* C2: when the request's state is present and equals the stored state,
   _verify_state raises nothing and hands back the context with the state
   cleared and every other field as it was. *)
C2_VerifiedStateIsCleared ==
    \A req_params \in ReqParams(ctx) :
        ~StateMismatch(ctx, req_params)
            => LET verified == verify_state(ctx, req_params)
               IN  /\ verified.exc = NoExc
                   /\ verified.ctx.state = None
                   /\ \A f \in (DOMAIN ctx) \ {"state"} : verified.ctx[f] = ctx[f]

\* a handshake got past the verification and left nonce and policy in place
C2_Witness ==
    /\ last.op = Redirect
    /\ Len(last.trace) = 5
    /\ last.caught = NoExc
    /\ ctx.state = None
    /\ ctx.nonce # None
    /\ ctx.last_used_b2c_policy # None

(* C3: state verification is the first step of every handshake, and nothing
   follows a failed one: a redirect with an absent or mismatched state runs
   no error parsing, no extraction and no exchange, builds no client and
   returns next_action, also when it carries a forgot-password error or a
   code. *)
C3_NothingBeforeVerifiedState ==
    [][Called(Redirect)
        => /\ last'.trace[1] = "verify_state"
           /\ StateMismatch(ctx, last'.req_params)
                => /\ last'.trace = <<"verify_state">>
                   /\ ~last'.client.built
                   /\ ~last'.redeem.called
                   /\ last'.returned = ReturnValue(last'.next_action)]_vars

C3_Witness ==
    /\ last.op = Redirect
    /\ last.trace = <<"verify_state">>
    /\ ERROR_CODE_PARAM_KEY \in DOMAIN last.req_params
    /\ StartsWith(last.req_params[ERROR_CODE_PARAM_KEY], B2C_FORGOT_PASSWORD_ERROR_CODE)
    /\ CODE \in DOMAIN last.req_params
    /\ last.returned = ReturnValue("index")

(* C4: a redirect with a matching state and a forgot-password error code
   clears the session and returns a redirect to an authorization URL whose
   authority carries the password-reset policy.  (Stated for the B2C
   authority type and the calls in which building the URL raised nothing.) *)
C4_PasswordResetRedirectUsesResetPolicy ==
    (/\ last.op = Redirect
     /\ aad_config.authority_type = B2C
     /\ last.caught = B2CPasswordError
     /\ last.raised = NoExc)
        => /\ last.returned.kind = "redirect"
           /\ last.returned.url.authority = <<Authority, Password>>

(* C5: a handshake that fails with anything but the password-reset error
   (provider error code, error result, unsupported response type, a failure
   of the token client) leaves the context data cleared, hence not
   authenticated, and returns next_action unchanged. *)
C5_FailedHandshakeClearsSession ==
    last.op = Redirect
        => /\ (last.caught \notin {NoExc, B2CPasswordError}
                => /\ ctx = DefaultContext
                   /\ ~ctx.authenticated
                   /\ last.raised = NoExc
                   /\ last.returned = ReturnValue(last.next_action))
           /\ (last.caught = NoExc => HandshakeSucceeded(last))

C5_Witness ==
    /\ last.op = Redirect
    /\ last.caught = TokenExchangeError
    /\ "access_token" \in DOMAIN last.result
    /\ ctx = DefaultContext
    /\ last.returned = ReturnValue("index")

(* C6 as stated: after a handshake that succeeded the context is
   authenticated and dirty, id_token_claims and access_token equal the
   result's values (absent when the result has none), username is the name
   claim or "anonymous", token_cache is the cache read for the exchange, and
   next_action is returned. *)
C6_SuccessCopiesResult ==
    HandshakeSucceeded(last)
        => /\ ctx.authenticated
           /\ ctx.has_changed
           /\ ctx.id_token_claims = Get(last.result, "id_token_claims", NoClaims)
           /\ ctx.access_token = Get(last.result, "access_token", None)
           /\ ctx.username = Get(ctx.id_token_claims, "name", "anonymous")
           /\ ctx.token_cache = last.cache
           /\ last.returned = ReturnValue(last.next_action)

(* C6 amended: as above, but id_token_claims (with username) and
   access_token are set from the result only when the result carries them;
   what the result does not carry keeps the value it had before the call. *)
C6_SuccessCopiesWhatResultCarries ==
    [][(Called(Redirect) /\ HandshakeSucceeded(last'))
        => /\ ctx'.authenticated
           /\ ctx'.has_changed
           /\ ctx'.token_cache = last'.cache
           /\ last'.cache = ctx.token_cache
           /\ last'.returned = ReturnValue(last'.next_action)
           /\ last'.caught = NoExc /\ last'.raised = NoExc
           /\ IF "id_token_claims" \in DOMAIN last'.result
              THEN /\ ctx'.id_token_claims = last'.result["id_token_claims"]
                   /\ ctx'.username =
                        Get(last'.result["id_token_claims"], "name", "anonymous")
              ELSE /\ ctx'.id_token_claims = ctx.id_token_claims
                   /\ ctx'.username = ctx.username
           /\ IF "access_token" \in DOMAIN last'.result
              THEN ctx'.access_token = last'.result["access_token"]
              ELSE ctx'.access_token = ctx.access_token]_vars

\* a second login whose result carries neither claims nor token
C6_Witness ==
    /\ HandshakeSucceeded(last)
    /\ DOMAIN last.result = {}
    /\ ctx.authenticated
    /\ ctx.username = "alice"
    /\ ctx.access_token = "tok"

(* C7: no exception escapes process_auth_redirect: every call ends by
   returning next_action or a redirect. *)
C7_NoExceptionEscapes ==
    last.op = Redirect
        => /\ last.raised = NoExc
           /\ last.returned.kind \in {"value", "redirect"}

(* C8 as stated: the context is authenticated exactly when a token exchange
   has succeeded since the most recent sign_out, remove_user or handshake
   error. *)
C8_AuthenticatedIffExchangeSinceSignOut ==
    ctx.authenticated <=> hist.since_sign_out

(* C8 amended: the context is authenticated exactly when a token exchange
   has succeeded since the most recent remove_user or handshake error;
   sign_out alone does not end it. *)
C8_AuthenticatedIffExchangeSinceClear ==
    ctx.authenticated <=> hist.since_clear

C8_Witness ==
    /\ last.op = "sign_out"
    /\ ctx.authenticated
    /\ hist.since_clear
    /\ ~hist.since_sign_out

(* C9: the client that redeems the code is built with the authority suffixed
   by the stored last_used_b2c_policy when the authority type is B2C (no
   suffix otherwise) and with the session's token cache; the redemption gets
   the code, the configured scopes, the redirect URI and the session nonce. *)
C9_RedeemingClientUsesPolicyAndCache ==
    [][(Called(Redirect) /\ last'.redeem.called)
        => /\ last'.client.authority =
                <<Authority>>
                \o (IF aad_config.authority_type = B2C
                       /\ Truthy(ctx.last_used_b2c_policy)
                    THEN <<ctx.last_used_b2c_policy>>
                    ELSE <<>>)
           /\ last'.client.token_cache = ctx.token_cache
           /\ last'.redeem.code = Get(last'.req_params, CODE, None)
           /\ last'.redeem.scopes = Scopes
           /\ last'.redeem.nonce = ctx.nonce]_vars

(* C10: when acquire_token_silently gets a result that carries an error, it
   raises TokenExchangeError with that error, and the context data is
   exactly what it was before the call. *)
C10_SilentErrorLeavesContext ==
    [][(/\ Called(Silent)
        /\ last'.answer = "result"
        /\ "error" \in DOMAIN last'.result)
        => /\ last'.raised = TokenExchangeError
           /\ last'.args[1] = last'.result["error"]
           /\ ctx' = ctx]_vars

C10_Witness ==
    /\ last.op = Silent
    /\ last.raised = TokenExchangeError
    /\ last.args[1] = "invalid_grant"
    /\ ctx.authenticated
    /\ ctx.state # None

(* C11: acquire_token_silently with a token cache stored in the
   context data, no account argument and a client that reports no cached accounts ends with the
   provider's error outcome (TokenExchangeError), not with an unrelated
   internal failure, and leaves authenticated as it was. *)
C11_NoCachedAccountIsProviderError ==
    [][(/\ Called(Silent)
        /\ last'.answer = "unasked"
        /\ Truthy(ctx.token_cache))
        => /\ last'.raised = TokenExchangeError
           /\ ctx'.authenticated = ctx.authenticated]_vars

(* C12: sign_out returns a redirect to the logout URL and nothing else: the
   URL is the authority, then the sign-up/sign-in policy when the authority
   type is B2C, then the logout path, then the post-logout redirect
   parameter when a post-sign-out URL was given; every field of the context
   data is what it was, so an authenticated session stays authenticated. *)
C12_SignOutOnlyRedirects ==
    [][Called("sign_out")
        => /\ ctx' = ctx
           /\ last'.returned.kind = "redirect"
           /\ last'.returned.url.params = EmptyDict
           /\ last'.returned.url.authority =
                <<Authority>>
                \o (IF aad_config.authority_type = B2C THEN <<Susi>> ELSE <<>>)
                \o <<SIGN_OUT_ENDPOINT>>
                \o (IF last'.post_sign_out_url # None
                    THEN <<"?", SIGN_OUT_REDIRECT_PARAM_KEY, "=",
                           last'.post_sign_out_url>>
                    ELSE <<>>)]_vars

\* an authenticated B2C session signed out with a post-sign-out URL
C12_Witness ==
    /\ last.op = "sign_out"
    /\ aad_config.authority_type = B2C
    /\ last.post_sign_out_url # None
    /\ Len(last.returned.url.authority) = 7
    /\ ctx.authenticated
    /\ ctx.access_token # None

\* the policy a call of get_auth_url is for: the argument when one is given,
\* else the default sign-up/sign-in policy
ResolvedPolicy(b2c_policy) == IF b2c_policy = None THEN Susi ELSE b2c_policy

(* C13: under the B2C authority type every call of get_auth_url leaves
   last_used_b2c_policy equal to the resolved policy (the explicit argument,
   else the default susi policy), and the URL it returns is built on the
   authority suffixed with that policy.  Under any other authority type
   last_used_b2c_policy is left as it was and the authority has no suffix. *)
C13_AuthUrlPersistsResolvedPolicy ==
    [][Called("get_auth_url")
        => IF aad_config.authority_type = B2C
           THEN /\ ctx'.last_used_b2c_policy = ResolvedPolicy(last'.b2c_policy)
                /\ last'.raised = NoExc
                     => last'.url.authority =
                            <<Authority, ResolvedPolicy(last'.b2c_policy)>>
           ELSE /\ ctx'.last_used_b2c_policy = ctx.last_used_b2c_policy
                /\ last'.raised = NoExc
                     => last'.url.authority = <<Authority>>]_vars

\* a call without a policy argument in an authenticated session
C13_Witness ==
    /\ last.op = "get_auth_url"
    /\ aad_config.authority_type = B2C
    /\ last.b2c_policy = None
    /\ last.raised = NoExc
    /\ last.url.authority = <<Authority, Susi>>
    /\ ctx.last_used_b2c_policy = Susi
    /\ ctx.authenticated

(* C14: under the B2C authority type get_auth_url leaves the prompt out of
   the authorization request exactly when the resolved policy is not the
   default susi policy and the requested prompt is select_account; in every
   other case the request carries the prompt that was asked for, or none
   when none was asked for. *)
C14_PromptStrippedOnlyForOtherPolicy ==
    [][(/\ Called("get_auth_url")
        /\ aad_config.authority_type = B2C
        /\ last'.raised = NoExc)
        => LET requested == Get(last'.kwargs, PROMPT_KEY, None)
               sent == Get(last'.url.params, PROMPT_KEY, None)
               strip == /\ ResolvedPolicy(last'.b2c_policy) # Susi
                        /\ requested = SELECT_ACCOUNT
           IN  /\ strip => sent = None
               /\ ~strip => sent = requested
               /\ \A k \in DOMAIN AuthRequestConfig :
                    k \in DOMAIN last'.url.params]_vars

\* select_account asked for with the password-reset policy: not sent
C14_Witness ==
    /\ last.op = "get_auth_url"
    /\ aad_config.authority_type = B2C
    /\ last.b2c_policy = Password
    /\ last.raised = NoExc
    /\ Get(last.kwargs, PROMPT_KEY, None) = SELECT_ACCOUNT
    /\ PROMPT_KEY \notin DOMAIN last.url.params

(* C15: the wrapper login_required returns calls the wrapped route exactly
   when the context data is authenticated at the call; otherwise it raises
   NotAuthenticatedError to its caller, the route is not called and the
   context data is what it was. *)
C15_GuardRunsRouteIffAuthenticated ==
    [][Called("login_required")
        => /\ last'.ran <=> ctx.authenticated
           /\ ctx.authenticated => last'.raised = NoExc
           /\ ~ctx.authenticated
                => /\ last'.raised = NotAuthenticatedError
                   /\ ~last'.ran
                   /\ ctx' = ctx]_vars

\* a session that was cleared after a failed handshake is turned away
C15_Witness ==
    /\ last.op = "login_required"
    /\ last.raised = NotAuthenticatedError
    /\ ~last.ran
    /\ ~ctx.authenticated
    /\ uuid_count > 0

(* C17: _verify_nonce accepts a request whose nonce is present and equal to
   the stored nonce, and the stored nonce is None afterwards; a request
   without nonce or with another nonce, a verified one used again included,
   raises AuthSecurityError and leaves the stored nonce as it was.  Nothing
   else in the context data changes either way. *)
C17_NonceIsSingleUse ==
    [][Called("verify_nonce")
        => LET nonce == Get(last'.req_params, "nonce", None)
           IN  /\ \A f \in (DOMAIN ctx) \ {"nonce"} : ctx'[f] = ctx[f]
               /\ IF nonce # None /\ nonce = ctx.nonce
                  THEN /\ last'.raised = NoExc
                       /\ ctx'.nonce = None
                  ELSE /\ last'.raised = AuthSecurityError
                       /\ ctx'.nonce = ctx.nonce]_vars

\* the second value issued was stored as nonce and has just been verified,
\* next to a stored state that stays
C17_Witness ==
    /\ last.op = "verify_nonce"
    /\ last.req_params = ("nonce" :> "uuid-2")
    /\ last.raised = NoExc
    /\ ctx.nonce = None
    /\ ctx.state = "uuid-1"

(* C16: remove_user is idempotent: whatever the context data was, a call
   leaves it cleared (not authenticated, no state, no nonce, no claims, no
   access token), and a second call right after it leaves exactly the same
   context data. *)
C16_RemoveUserIsIdempotent ==
    [][Called("remove_user")
        => /\ ~ctx'.authenticated
           /\ ctx'.state = None
           /\ ctx'.nonce = None
           /\ ctx'.id_token_claims = NoClaims
           /\ ctx'.access_token = None
           /\ remove_user(ctx') = ctx'
           /\ remove_user(remove_user(ctx)) = remove_user(ctx)]_vars

\* remove_user has run in a session in which values had been issued
C16_Witness ==
    /\ last.op = "remove_user"
    /\ uuid_count = MaxUuid
    /\ ~ctx.authenticated
    /\ ctx.state = None
    /\ ctx.nonce = None
    /\ hist = NoHistory

Range(seq) == {seq[i] : i \in DOMAIN seq}

\* response_type or aad_config.auth_request.response_type or 'code'
EffectiveResponseType(response_type) ==
    IF response_type # None THEN response_type
    ELSE IF aad_config.response_type # None THEN aad_config.response_type
    ELSE CODE

(* C18: when the effective response type (the argument, else the configured
   one, else code) is not code, a redirect with the stored state and without
   an error parameter fails with NotImplementedError before any exchange: no
   client is built, no code is redeemed, the context data is cleared and
   next_action is returned. *)
C18_OtherResponseTypeFailsBeforeExchange ==
    [][(/\ Called(Redirect)
        /\ ~StateMismatch(ctx, last'.req_params)
        /\ ERROR_CODE_PARAM_KEY \notin DOMAIN last'.req_params
        /\ EffectiveResponseType(last'.response_type) # CODE)
        => /\ last'.caught = NotImplementedErr
           /\ ~last'.client.built
           /\ ~last'.redeem.called
           /\ "x_change_auth_code_for_token" \notin Range(last'.trace)
           /\ ctx' = DefaultContext
           /\ last'.raised = NoExc
           /\ last'.returned = ReturnValue(last'.next_action)]_vars

\* the response type came from the configuration, the request carried a code
C18_Witness ==
    /\ last.op = Redirect
    /\ last.response_type = None
    /\ aad_config.response_type = ID_TOKEN
    /\ CODE \in DOMAIN last.req_params
    /\ last.caught = NotImplementedErr
    /\ Len(last.trace) = 3
    /\ ctx = DefaultContext
    /\ last.returned = ReturnValue("profile")

(* C19: a state is good for one handshake.  Generating a state stores a
   value never issued before, which replaces whatever was stored; a redirect
   carrying the stored state gets past the verification; a redirect carrying
   a value that an earlier redirect got past the verification with, or any
   other value than the stored one (a replaced one included), fails with
   AuthSecurityError without any exchange, whatever was generated meanwhile;
   and the stored state is never one that was verified before. *)
C19_StateIsSingleUse ==
    [][/\ ctx'.state \notin accepted'
       /\ Called("generate_state")
            => /\ ctx'.state = last'.returned
               /\ ctx'.state # ctx.state
               /\ ctx'.state \notin accepted
       /\ Called(Redirect)
            => LET state == Get(last'.req_params, "state", None)
                   rejected == /\ last'.caught = AuthSecurityError
                               /\ last'.trace = <<"verify_state">>
                               /\ ~last'.redeem.called
                               /\ accepted' = accepted
               IN  /\ (state # None /\ state = ctx.state)
                        => /\ Len(last'.trace) > 1
                           /\ last'.caught # AuthSecurityError
                           /\ accepted' = accepted \cup {state}
                           /\ ctx'.state = None
                   /\ state \in accepted => rejected
                   /\ state # ctx.state => rejected]_vars

\* the first state was verified by an earlier redirect and is refused now,
\* after a second value was issued
C19_Witness ==
    /\ last.op = Redirect
    /\ Get(last.req_params, "state", None) = "uuid-1"
    /\ CODE \in DOMAIN last.req_params
    /\ "uuid-1" \in accepted
    /\ last.caught = AuthSecurityError
    /\ ~last.redeem.called
    /\ uuid_count = 2

(* C20: process_auth_redirect does not verify the nonce.  What a call does
   and returns is what it does and returns for the same request without the
   nonce parameter; the exchange is given the nonce stored in the context
   data, whatever the request's nonce is; and a handshake that succeeded
   leaves the stored nonce as it was. *)
C20_RedirectIgnoresRequestNonce ==
    [][Called(Redirect)
        => /\ process_auth_redirect(ctx, Pop(last'.req_params, "nonce"),
                   last'.next_action, last'.redirect_uri, last'.response_type,
                   last'.answer, last'.url_answer)
              = [ctx |-> ctx', caught |-> last'.caught, raised |-> last'.raised,
                 returned |-> last'.returned, trace |-> last'.trace,
                 cache |-> last'.cache, client |-> last'.client,
                 redeem |-> last'.redeem, result |-> last'.result]
           /\ last'.redeem.called => last'.redeem.nonce = ctx.nonce
           /\ HandshakeSucceeded(last') => ctx'.nonce = ctx.nonce]_vars

\* a handshake succeeded with a request nonce that is not the stored one
C20_Witness ==
    /\ HandshakeSucceeded(last)
    /\ Get(last.req_params, "nonce", None) = "uuid-1"
    /\ ctx.nonce = "uuid-2"
    /\ last.redeem.nonce = "uuid-2"
    /\ ctx.authenticated

====
